---- MODULE Spec2Model ----
(***************************************************************************)
(* The log retention and aggregation pipeline of CPUUsageMonitor           *)
(* (src/main.py): save_logs, parse_log, aggregate_cpu_usage,               *)
(* clear_previous_logs and the order in which send_metrics calls them.     *)
(*                                                                         *)
(* Modelling conventions                                                   *)
(*   - a file name is the sequence of the code points of its characters,   *)
(*     so that list.sort() is the lexicographic order Python uses;         *)
(*   - a log file's content is the sequence of its lines, a line is the    *)
(*     sequence of its whitespace-separated fields (what line.split()      *)
(*     returns); a blank line is the empty sequence;                       *)
(*   - a Python float is an IEEE 754 binary64 number, kept exactly as a    *)
(*     sign and an integer magnitude in units of 2^-56 (four limbs of 24   *)
(*     bits, least significant first); an addition is the exact sum        *)
(*     rounded to 53 significant bits, ties to even;                       *)
(*   - os.listdir returns the entries in an arbitrary order: every caller  *)
(*     that depends on the order takes it as a nondeterministic choice;    *)
(*   - the log directory exists and holds regular files only; the clock    *)
(*     does not run backwards, and the pipeline runs again on the same     *)
(*     day or on the next one;                                             *)
(*   - a call that raises ends the run: the calls after it are not made.   *)
(***************************************************************************)
EXTENDS Integers, Sequences, FiniteSets, TLC

VARIABLES
    log_dir,      \* /var/log/user_cpu_usage: file name -> content
    todo,         \* the calls still to be made, in order (<<>>: nothing running)
    last,         \* the name of the call that completed last
    raised,       \* that call ended by raising an exception
    today,        \* index of the date save_logs read from datetime.date.today()
    result,       \* what subprocess.run returned to save_logs
    failures,     \* how many sa runs have failed so far
    files,        \* clear_previous_logs' local list `files`, as a set of names
    removed,      \* the names this run printed as "Removed ..."
    listing,      \* the order in which os.listdir enumerated the directory
    total_usage,  \* self.total_usage
    snapshot,     \* the content of the file handed to parse_log
    user_cpu      \* what parse_log returned

vars == <<log_dir, todo, last, raised, today, result, failures, files, removed,
          listing, total_usage, snapshot, user_cpu>>

-----------------------------------------------------------------------------
(* Bounds of the model *)

\* dates the clock can show in the daily pipeline
NumDates == 9
\* date-named files a directory handed to clear_previous_logs can hold
NumNames == 10
\* lines of a snapshot handed to parse_log
MaxLines == 3
\* files of a directory handed to aggregate_cpu_usage on its own
MaxAggFiles == 3
\* runs of sa that end with a non-zero status or cannot start
MaxFailures == 1
\* directory sizes up to which every listing order is enumerated
MaxPermFiles == 2

-----------------------------------------------------------------------------
(* Python floats: binary64 on the grid of multiples of 2^-56 *)

Base == 2 ^ 24

FZero == [neg |-> FALSE, mag |-> <<0, 0, 0, 0>>]

RECURSIVE BitLenLimb(_)
BitLenLimb(x) == IF x = 0 THEN 0 ELSE 1 + BitLenLimb(x \div 2)

BitLen(m) ==
    IF m[4] # 0 THEN 72 + BitLenLimb(m[4])
    ELSE IF m[3] # 0 THEN 48 + BitLenLimb(m[3])
    ELSE IF m[2] # 0 THEN 24 + BitLenLimb(m[2])
    ELSE BitLenLimb(m[1])

AddMag(a, b) ==
    LET s1 == a[1] + b[1]
        s2 == a[2] + b[2] + (s1 \div Base)
        s3 == a[3] + b[3] + (s2 \div Base)
        s4 == a[4] + b[4] + (s3 \div Base)
    IN  <<s1 % Base, s2 % Base, s3 % Base, s4 % Base>>

\* a - b for a >= b
SubMag(a, b) ==
    LET d1 == a[1] - b[1]
        d2 == a[2] - b[2] - (IF d1 < 0 THEN 1 ELSE 0)
        d3 == a[3] - b[3] - (IF d2 < 0 THEN 1 ELSE 0)
        d4 == a[4] - b[4] - (IF d3 < 0 THEN 1 ELSE 0)
    IN  <<d1 % Base, d2 % Base, d3 % Base, d4 % Base>>

GreaterMag(a, b) ==
    \E i \in 1..4 : a[i] > b[i] /\ \A j \in (i+1)..4 : a[j] = b[j]

\* round to nearest, ties to even, keeping 53 significant bits
Round53(m) ==
    LET len == BitLen(m)
    IN  IF len <= 53 THEN m
        ELSE LET p    == 2 ^ (len - 53)
                 r    == m[1] % p
                 down == <<m[1] - r, m[2], m[3], m[4]>>
                 odd  == (m[1] \div p) % 2 = 1
             IN  IF 2 * r > p \/ (2 * r = p /\ odd)
                 THEN AddMag(down, <<p, 0, 0, 0>>)
                 ELSE down

\* x + y of two floats
FAdd(x, y) ==
    IF x.neg = y.neg
    THEN [neg |-> x.neg, mag |-> Round53(AddMag(x.mag, y.mag))]
    ELSE IF x.mag = y.mag THEN FZero
    ELSE IF GreaterMag(x.mag, y.mag)
         THEN [neg |-> x.neg, mag |-> Round53(SubMag(x.mag, y.mag))]
         ELSE [neg |-> y.neg, mag |-> Round53(SubMag(y.mag, x.mag))]

FNonNegative(x) == ~x.neg \/ x.mag = <<0, 0, 0, 0>>

\* the float of a non-negative integer below 2^15
FInt(n) == [neg |-> FALSE, mag |-> <<0, 0, (n * 256) % Base, (n * 256) \div Base>>]

\* float(s): the fields that are numerals, and their binary64 values
\*   "0.1" = 0x1.999999999999ap-4, "0.2" = 0x1.999999999999ap-3,
\*   "0.3" = 0x1.3333333333333p-2
Numerals == {"3600", "1800", "900", "50", "20", "77", "0.1", "0.2", "0.3", "-5"}

float(s) ==
    CASE s = "3600" -> FInt(3600)
      [] s = "1800" -> FInt(1800)
      [] s = "900"  -> FInt(900)
      [] s = "50"   -> FInt(50)
      [] s = "20"   -> FInt(20)
      [] s = "77"   -> FInt(77)
      [] s = "0.1"  -> [neg |-> FALSE, mag |-> <<10066330, 10066329, 25, 0>>]
      [] s = "0.2"  -> [neg |-> FALSE, mag |-> <<3355444, 3355443, 51, 0>>]
      [] s = "0.3"  -> [neg |-> FALSE, mag |-> <<13421772, 13421772, 76, 0>>]
      [] s = "-5"   -> [neg |-> TRUE, mag |-> <<0, 0, 1280, 0>>]

\* float(s) raises ValueError on any other field
FloatRaises(s) == s \notin Numerals

-----------------------------------------------------------------------------
(* Users *)

IGNORANT_USERS == {"root", "_apt", "sshd", "man", "fwupd-re", "www-data"}

\* self.ALIVE_USERS as __init__ leaves it: the (truncated) names of the
\* /etc/passwd entries whose home directory exists and has "home" in its path
ALIVE_USERS == {"alice", "bob", "www-data"}

-----------------------------------------------------------------------------
(* parse_log *)

EmptyMap == [u \in {} |-> FZero]

\* user_cpu[user] = cpu_time: the earlier lines of the user are lost
AccumulateOverwrites(m, user, cpu_time) ==
    [u \in DOMAIN m \cup {user} |-> IF u = user THEN cpu_time ELSE m[u]]

\* dict.get(user, 0) + cpu_time, stored back under user
Accumulate(m, user, cpu_time) ==
    [u \in DOMAIN m \cup {user} |->
        IF u = user
        THEN FAdd(IF user \in DOMAIN m THEN m[user] ELSE FZero, cpu_time)
        ELSE m[u]]

\* the body of the loop over lines, for one line; acc = [raised, user_cpu]
ParseLine(acc, line) ==
    IF acc.raised THEN acc
    ELSE IF Len(line) > 0 /\ line[1] # "Date:"
    THEN IF Len(line) > 1
         THEN IF line[1] \notin ALIVE_USERS \/ line[1] \in IGNORANT_USERS
              THEN acc
              ELSE IF FloatRaises(line[2])
                   THEN [raised |-> TRUE, user_cpu |-> acc.user_cpu]
                   ELSE [raised |-> FALSE,
                         user_cpu |-> Accumulate(acc.user_cpu, line[1], float(line[2]))]
         ELSE acc
    ELSE acc

RECURSIVE ParseLines(_, _)
ParseLines(acc, lines) ==
    IF lines = <<>> THEN acc
    ELSE ParseLines(ParseLine(acc, Head(lines)), Tail(lines))

\* parse_log(file_path) on a file with this content: the mapping returned, or
\* raised = TRUE when float() raised ValueError (nothing is returned then)
parse_log(content) ==
    LET r == ParseLines([raised |-> FALSE, user_cpu |-> EmptyMap], content)
    IN  IF r.raised THEN [raised |-> TRUE, user_cpu |-> EmptyMap] ELSE r

-----------------------------------------------------------------------------
(* Dates and file names *)

\* the dates the clock shows: 2024-12-28 .. 2024-12-31, 2025-01-01 ..
DateOf(i) == IF i <= 4 THEN <<2024, 12, 27 + i>> ELSE <<2025, 1, i - 4>>

\* the code points of n written with `width` decimal digits, zero padded
RECURSIVE Digits(_, _)
Digits(n, width) ==
    IF width = 0 THEN <<>> ELSE Append(Digits(n \div 10, width - 1), 48 + (n % 10))

\* str(date): YYYY-MM-DD
isoformat(d) == Digits(d[1], 4) \o <<45>> \o Digits(d[2], 2) \o <<45>> \o Digits(d[3], 2)

\* f"{today}.log"
FileName(i) == isoformat(DateOf(i)) \o <<46, 108, 111, 103>>

\* the second field of the line f"Date: {today}": the same text as a field
DateField(i) ==
    << "2024-12-28", "2024-12-29", "2024-12-30", "2024-12-31", "2025-01-01",
       "2025-01-02", "2025-01-03", "2025-01-04", "2025-01-05", "2025-01-06",
       "2025-01-07", "2025-01-08" >>[i]

\* the day whose snapshot a file named n holds
DayOf(n) == CHOOSE i \in 1..12 : FileName(i) = n

\* a file of the directory that save_logs did not write: "cpu.log"
StrayName == <<99, 112, 117, 46, 108, 111, 103>>

\* a < b for Python strings: lexicographic by code point
RECURSIVE LexLess(_, _)
LexLess(a, b) ==
    IF a = <<>> THEN b # <<>>
    ELSE IF b = <<>> THEN FALSE
    ELSE IF a[1] # b[1] THEN a[1] < b[1]
    ELSE LexLess(Tail(a), Tail(b))

\* the list that list.sort() leaves for the names in S
RECURSIVE Sorted(_)
Sorted(S) ==
    IF S = {} THEN <<>>
    ELSE LET least == CHOOSE a \in S : \A b \in S \ {a} : LexLess(a, b)
         IN  <<least>> \o Sorted(S \ {least})

Range(s) == {s[i] : i \in 1..Len(s)}

-----------------------------------------------------------------------------
(* clear_previous_logs *)

Retention == 7

\* the files that the loop over files[:-7] removes after files.sort()
Removed(names) ==
    LET s == Sorted(names)
    IN  {s[i] : i \in 1..(Len(s) - Retention)}

\* a slicing slip: files[7:] instead of files[:-7]
ClearKeepsOldest(dir) ==
    LET names == DOMAIN dir
        s == Sorted(names)
    IN  IF Cardinality(names) > Retention
        THEN [n \in {s[i] : i \in 1..Retention} |-> dir[n]]
        ELSE dir

\* one file removed per call instead of all of files[:-7]
ClearRemovesOne(dir) ==
    LET names == DOMAIN dir
    IN  IF Cardinality(names) > Retention
        THEN [n \in names \ {Sorted(names)[1]} |-> dir[n]]
        ELSE dir

\* the directory that clear_previous_logs leaves
clear_previous_logs(dir) ==
    LET names == DOMAIN dir
    IN  IF Cardinality(names) > Retention
        THEN [n \in names \ Removed(names) |-> dir[n]]
        ELSE dir

-----------------------------------------------------------------------------
(* save_logs *)

\* the lines `sa -u` prints on the day with index i when it succeeds
SaOutput(i) ==
    CASE i % 3 = 0 -> << <<"alice", "3600", "cpu">>, <<"root", "50", "cpu">> >>
      [] i % 3 = 1 -> << <<"alice", "1800", "cpu">>, <<"bob", "900", "cpu">>,
                         <<"mallory", "77", "cpu">> >>
      [] i % 3 = 2 -> << <<"bob", "900", "cpu">>, <<"alice", "0.1", "cpu">>,
                         <<"www-data", "20", "cpu">> >>

NoResult == [started |-> FALSE, returncode |-> 0, stdout |-> <<>>]

\* f"Date: {today}\n{result.stdout}\n", as readlines() will return it
LogEntry(i, stdout) == << <<"Date:", DateField(i)>> >> \o stdout \o << <<>> >>

\* the directory after open(log_file, "w") and file.write(log_entry)
save_logs(dir, i, res) ==
    [n \in DOMAIN dir \cup {FileName(i)} |->
        IF n = FileName(i) THEN LogEntry(i, res.stdout) ELSE dir[n]]

-----------------------------------------------------------------------------
(* aggregate_cpu_usage *)

\* self.total_usage = {} at the start of the call
AggStartKeepsTotals(old) == old

AggStart(old) == EmptyMap

\* the loop over daily_usage.items()
Merge(total, daily) ==
    [u \in DOMAIN total \cup DOMAIN daily |->
        IF u \in DOMAIN daily
        THEN FAdd(IF u \in DOMAIN total THEN total[u] ELSE FZero, daily[u])
        ELSE total[u]]

RECURSIVE AggLoop(_, _, _)
AggLoop(acc, dir, order) ==
    IF order = <<>> \/ acc.raised THEN acc
    ELSE LET daily == parse_log(dir[Head(order)])
         IN  AggLoop(IF daily.raised
                     THEN [raised |-> TRUE, total_usage |-> acc.total_usage]
                     ELSE [raised |-> FALSE,
                           total_usage |-> Merge(acc.total_usage, daily.user_cpu)],
                     dir, Tail(order))

\* aggregate_cpu_usage(log_dir) when os.listdir enumerates in `order`; every
\* entry is a regular file. A ValueError from parse_log ends the call and
\* leaves self.total_usage as far as it was built.
aggregate_cpu_usage(old, dir, order) ==
    AggLoop([raised |-> FALSE, total_usage |-> AggStart(old)], dir, order)

Orderings(S) ==
    {p \in [1..Cardinality(S) -> S] : \A i, j \in 1..Cardinality(S) : p[i] = p[j] => i = j}

Reverse(s) == [i \in 1..Len(s) |-> s[Len(s) + 1 - i]]

\* the orders os.listdir is taken to return the names of S in: all of them for
\* a small directory, the ascending and the descending one for a larger one
ListingOrders(S) ==
    IF Cardinality(S) <= MaxPermFiles THEN Orderings(S)
    ELSE {Sorted(S), Reverse(Sorted(S))}

-----------------------------------------------------------------------------
(* The calls, one action each *)

\* send_metrics: the calls it makes on the store, in order
SendMetricsSavesFirst == <<"save_logs", "clear_previous_logs", "aggregate_cpu_usage">>

send_metrics == <<"clear_previous_logs", "save_logs", "aggregate_cpu_usage">>

Next1(name) == todo # <<>> /\ Head(todo) = name

\* run(): a new send_metrics
SendMetrics ==
    /\ todo = <<>>
    /\ todo' = send_metrics
    /\ last' = "send_metrics"
    /\ raised' = FALSE
    /\ result' = NoResult
    /\ files' = {}
    /\ removed' = {}
    /\ listing' = <<>>
    /\ UNCHANGED <<log_dir, today, failures, total_usage, snapshot, user_cpu>>

ClearPreviousLogs ==
    /\ Next1("clear_previous_logs")
    /\ files' = DOMAIN log_dir
    /\ log_dir' = clear_previous_logs(log_dir)
    /\ removed' = removed \cup (DOMAIN log_dir \ DOMAIN log_dir')
    /\ todo' = Tail(todo)
    /\ last' = "clear_previous_logs"
    /\ raised' = FALSE
    /\ UNCHANGED <<today, result, failures, listing, total_usage, snapshot, user_cpu>>

SaveLogs ==
    /\ Next1("save_logs")
    /\ last' = "save_logs"
    /\ \E i \in 1..NumDates :
        /\ i >= today /\ i <= today + 1   \* the same day again, or the next
        /\ today' = i
        /\ \/ \* sa ran and returned 0
              /\ result' = [started |-> TRUE, returncode |-> 0, stdout |-> SaOutput(i)]
              /\ log_dir' = save_logs(log_dir, i, result')
              /\ raised' = FALSE
              /\ todo' = Tail(todo)
              /\ UNCHANGED failures
           \/ \* sa (or sudo) returned a non-zero status and printed nothing
              /\ failures < MaxFailures
              /\ failures' = failures + 1
              /\ result' = [started |-> TRUE, returncode |-> 1, stdout |-> <<>>]
              /\ log_dir' = save_logs(log_dir, i, result')
              /\ raised' = FALSE
              /\ todo' = Tail(todo)
           \/ \* sudo could not be started: subprocess.run raises
              /\ failures < MaxFailures
              /\ failures' = failures + 1
              /\ result' = NoResult
              /\ raised' = TRUE
              /\ todo' = <<>>
              /\ UNCHANGED log_dir
    /\ UNCHANGED <<files, removed, listing, total_usage, snapshot, user_cpu>>

\* called by send_metrics, or once more on the same monitor after it returned
AggregateCpuUsage ==
    /\ \/ Next1("aggregate_cpu_usage")
       \/ todo = <<>> /\ last = "aggregate_cpu_usage" /\ ~raised
    /\ \E order \in ListingOrders(DOMAIN log_dir) :
        LET r == aggregate_cpu_usage(total_usage, log_dir, order)
        IN  /\ listing' = order
            /\ total_usage' = r.total_usage
            /\ raised' = r.raised
            /\ todo' = IF r.raised \/ todo = <<>> THEN <<>> ELSE Tail(todo)
    /\ last' = "aggregate_cpu_usage"
    /\ UNCHANGED <<log_dir, today, result, failures, files, removed, snapshot, user_cpu>>

\* parse_log on one file of the directory
ParseLog ==
    /\ Next1("parse_log")
    /\ \E n \in DOMAIN log_dir :
        /\ snapshot' = log_dir[n]
        /\ user_cpu' = parse_log(log_dir[n]).user_cpu
        /\ raised' = parse_log(log_dir[n]).raised
        /\ todo' = IF raised' THEN <<>> ELSE Tail(todo)
    /\ last' = "parse_log"
    /\ UNCHANGED <<log_dir, today, result, failures, files, removed, listing,
                   total_usage>>

-----------------------------------------------------------------------------
(* The daily pipeline, from an empty log directory *)

EmptyDir == [n \in {} |-> <<>>]

Fresh ==
    /\ last = "init"
    /\ raised = FALSE
    /\ today = 0
    /\ result = NoResult
    /\ failures = 0
    /\ files = {}
    /\ removed = {}
    /\ listing = <<>>
    /\ total_usage = EmptyMap
    /\ snapshot = <<>>
    /\ user_cpu = EmptyMap

Init == log_dir = EmptyDir /\ todo = <<>> /\ Fresh

Next == SendMetrics \/ ClearPreviousLogs \/ SaveLogs \/ AggregateCpuUsage

Spec == Init /\ [][Next]_vars

-----------------------------------------------------------------------------
(* clear_previous_logs, twice in a row, on any directory *)

PruneNames == {FileName(i) : i \in 1..NumNames} \cup {StrayName}

InitPrune ==
    /\ log_dir \in {[n \in S |-> <<>>] : S \in SUBSET PruneNames}
    /\ todo = <<"clear_previous_logs", "clear_previous_logs">>
    /\ Fresh

NextPrune == ClearPreviousLogs

SpecPrune == InitPrune /\ [][NextPrune]_vars

-----------------------------------------------------------------------------
(* parse_log, then aggregate_cpu_usage, on a directory of one snapshot *)

ParseLineSet ==
    { <<>>,
      <<"Date:", "2024-12-28">>,
      <<"alice", "3600">>,
      <<"alice", "1800", "cpu">>,
      <<"alice", "-5">>,
      <<"bob", "900">>,
      <<"bob", "notanumber">>,
      <<"bob">>,
      <<"root", "50">>,
      <<"www-data", "20">>,
      <<"mallory", "77">> }

SeqsUpTo(S, n) == UNION {[1..k -> S] : k \in 0..n}

InitParse ==
    /\ log_dir \in {[n \in {FileName(1)} |-> c] : c \in SeqsUpTo(ParseLineSet, MaxLines)}
    /\ todo = <<"parse_log", "aggregate_cpu_usage">>
    /\ Fresh

NextParse == ParseLog \/ AggregateCpuUsage

SpecParse == InitParse /\ [][NextParse]_vars

-----------------------------------------------------------------------------
(* aggregate_cpu_usage on any small directory, in any listing order *)

AggOutputs ==
    { <<>>,
      << <<"alice", "0.1">> >>,
      << <<"alice", "0.2">> >>,
      << <<"alice", "0.3">>, <<"bob", "900">> >>,
      << <<"bob", "notanumber">> >> }

AggDirs ==
    UNION { {[n \in {FileName(i) : i \in S} |-> LogEntry(DayOf(n), c[DayOf(n)])] :
                c \in [S -> AggOutputs]} :
            S \in SUBSET (1..MaxAggFiles) }

InitAgg ==
    /\ log_dir \in AggDirs
    /\ todo = <<"aggregate_cpu_usage">>
    /\ Fresh

NextAgg == AggregateCpuUsage

SpecAgg == InitAgg /\ [][NextAgg]_vars

-----------------------------------------------------------------------------
(* The daily pipeline from any starting store of consecutive days *)

StartDirs ==
    { [n \in {FileName(i) : i \in a..b} |-> LogEntry(DayOf(n), SaOutput(DayOf(n)))] :
      a \in 1..2, b \in 0..(NumDates + 1) }

InitStore == log_dir \in StartDirs /\ todo = <<>> /\ Fresh

SpecStore == InitStore /\ [][Next]_vars

-----------------------------------------------------------------------------
(* Properties *)

Card(f) == Cardinality(DOMAIN f)

\* y/m/d order of two dates
DateBefore(d, e) ==
    \/ d[1] < e[1]
    \/ d[1] = e[1] /\ d[2] < e[2]
    \/ d[1] = e[1] /\ d[2] = e[2] /\ d[3] < e[3]

\* a data line that parse_log is to skip as malformed: fewer than two fields,
\* or a second field that is no number
IsData(line) == Len(line) > 0 /\ line[1] # "Date:"
Malformed(line) == IsData(line) /\ (Len(line) < 2 \/ FloatRaises(line[2]))
WellFormed(content) == \A k \in 1..Len(content) : ~Malformed(content[k])
Allowed(u) == u \in ALIVE_USERS /\ u \notin IGNORANT_USERS

RECURSIVE SumFields(_)
SumFields(lines) ==
    IF lines = <<>> THEN FZero
    ELSE FAdd(SumFields(SubSeq(lines, 1, Len(lines) - 1)), float(lines[Len(lines)][2]))

\* the mapping expected of a snapshot without malformed lines
LinesOf(content, u) == SelectSeq(content, LAMBDA l : IsData(l) /\ l[1] = u)
ExpectedKeys(content) ==
    {u \in {content[k][1] : k \in {j \in 1..Len(content) : IsData(content[j])}} : Allowed(u)}
ExpectedUsage(content) ==
    [u \in ExpectedKeys(content) |-> SumFields(LinesOf(content, u))]

\* C1: the log directory never holds more than 7 snapshot files
C1_AtMostSeven == Card(log_dir) <= Retention

\* C2: after clear_previous_logs the survivors are the 7 lexically greatest
\* names (for date-named files, the 7 most recent dates) when more than 7 were
\* listed, and all the files listed otherwise; nothing else is removed
C2_KeepsNewestSeven ==
    last = "clear_previous_logs" =>
        LET kept == DOMAIN log_dir
        IN  /\ kept \subseteq files
            /\ removed \cap kept = {}
            /\ Card(log_dir) = IF Cardinality(files) > Retention
                               THEN Retention ELSE Cardinality(files)
            /\ \A k \in kept, r \in files \ kept : LexLess(r, k)
            /\ \A i, j \in 1..NumNames :
                 FileName(i) \in kept /\ FileName(j) \in files \ kept
                     => DateBefore(DateOf(j), DateOf(i))

C2_Witness ==
    /\ last = "clear_previous_logs"
    /\ Cardinality(files) = Retention + 3
    /\ StrayName \in files
    /\ FileName(5) \in files /\ FileName(3) \in files
    /\ Card(log_dir) = Retention

\* C3: parse_log never fails on a malformed data line; the line is skipped and
\* the rest of the snapshot is parsed
C3_MalformedLinesSkipped ==
    last = "parse_log" =>
        /\ ~raised
        /\ user_cpu = ExpectedUsage(SelectSeq(snapshot, LAMBDA l : ~Malformed(l)))

\* C4: on a snapshot of well-formed lines parse_log returns exactly the first
\* fields that are in ALIVE_USERS and not in IGNORANT_USERS, each with the sum
\* of the second fields of its lines; total_usage never holds another identity
C4_FilteredSums ==
    /\ (last = "parse_log" /\ WellFormed(snapshot)) =>
            ~raised /\ user_cpu = ExpectedUsage(snapshot)
    /\ \A u \in DOMAIN user_cpu \cup DOMAIN total_usage : Allowed(u)

C4_Witness ==
    /\ last = "aggregate_cpu_usage"
    /\ snapshot = << <<"alice", "3600">>, <<"alice", "1800", "cpu">>, <<"www-data", "20">> >>
    /\ user_cpu = [u \in {"alice"} |-> FInt(5400)]
    /\ total_usage = user_cpu

\* C5: what aggregate_cpu_usage returns is, per identity, the sum of the
\* parsed values over exactly the files in the directory at the call
ParsedIn(n) == parse_log(log_dir[n]).user_cpu

RECURSIVE SumOver(_, _)
SumOver(u, order) ==
    IF order = <<>> THEN FZero
    ELSE LET rest == SumOver(u, SubSeq(order, 1, Len(order) - 1))
             n    == order[Len(order)]
         IN  IF u \in DOMAIN ParsedIn(n) THEN FAdd(rest, ParsedIn(n)[u]) ELSE rest

C5_TotalsOfPresentFiles ==
    (last = "aggregate_cpu_usage" /\ ~raised) =>
        /\ Range(listing) = DOMAIN log_dir
        /\ Len(listing) = Card(log_dir)
        /\ DOMAIN total_usage = UNION {DOMAIN ParsedIn(n) : n \in DOMAIN log_dir}
        /\ \A u \in DOMAIN total_usage : total_usage[u] = SumOver(u, listing)

C5_Witness ==
    /\ last = "aggregate_cpu_usage" /\ ~raised
    /\ todo = <<>>
    /\ removed # {}
    /\ Card(log_dir) = Retention + 1
    /\ {"alice", "bob"} \subseteq DOMAIN total_usage

\* C6: whatever the order of the listing, aggregate_cpu_usage returns the same
\* keys with the same values; an empty directory gives an empty mapping
C6_OrderIndependent ==
    (last = "aggregate_cpu_usage" /\ ~raised) =>
        /\ \A order \in Orderings(DOMAIN log_dir) :
              aggregate_cpu_usage(total_usage, log_dir, order).total_usage = total_usage
        /\ (DOMAIN log_dir = {} => total_usage = EmptyMap)

\* C7: when sa returns a non-zero status or cannot be started, save_logs
\* raises and leaves the directory as it was
C7_FailedCaptureKeepsStore ==
    [][(Next1("save_logs") /\ last' = "save_logs"
            /\ (~result'.started \/ result'.returncode # 0))
        => (raised' /\ log_dir' = log_dir)]_vars

\* C8: no value of parse_log's mapping or of total_usage is negative
C8_NeverNegative ==
    /\ \A u \in DOMAIN user_cpu : FNonNegative(user_cpu[u])
    /\ \A u \in DOMAIN total_usage : FNonNegative(total_usage[u])

\* C9: in a send_metrics run clear_previous_logs has completed when save_logs
\* starts; the file save_logs wrote stays in the directory for the rest of the
\* run and is among the files aggregate_cpu_usage reads
C9_TodayNotPruned ==
    /\ Next1("save_logs") => last = "clear_previous_logs"
    /\ result.started =>
          /\ FileName(today) \in DOMAIN log_dir
          /\ log_dir[FileName(today)] = LogEntry(today, result.stdout)
          /\ last = "aggregate_cpu_usage" => FileName(today) \in Range(listing)

C9_Witness ==
    /\ result.started
    /\ last = "aggregate_cpu_usage"
    /\ Cardinality(files) > Retention
    /\ FileName(today) \notin files
    /\ FileName(today) \in Range(listing)

\* C10: a second clear_previous_logs right after the first removes nothing
C10_SecondClearRemovesNothing ==
    (todo = <<>> /\ last = "clear_previous_logs") => DOMAIN log_dir = files

C10_Witness ==
    /\ todo = <<>> /\ last = "clear_previous_logs"
    /\ removed # {}
    /\ Card(log_dir) = Retention
    /\ DOMAIN log_dir = files

====
